---------------------------- MODULE Spec2Model ----------------------------
(***************************************************************************)
(* route53-all-aws-connector: the NATS handler that creates, updates and   *)
(* deletes Route53 hosted zones (main.go) and the Event it decodes,        *)
(* validates and answers with (event.go).                                  *)
(*                                                                         *)
(* Go strings that the code indexes (record entries, zone names) are       *)
(* sequences of one-character strings; the other strings are only tested   *)
(* for emptiness and are TLA+ strings.  A Go slice of records is           *)
(* [isNil, elems] so that nil and the empty slice stay distinct.           *)
(***************************************************************************)
EXTENDS Integers, Sequences, FiniteSets, TLC

(***************************************************************************)
(* Bounds of the model.                                                    *)
(***************************************************************************)
\* longest desired record list drawn for the reconciler
MaxLen == 2
\* longest remote listing drawn for the reconciler
MaxRemote == 3
\* number of inbound messages the transport delivers in one run
MaxMsgs == 2

(***************************************************************************)
(* Names.                                                                  *)
(***************************************************************************)
EmptyName == << >>
Apex      == << "a" >>
ApexDot   == << "a", "." >>
Www       == << "w" >>
WwwDot    == << "w", "." >>
Mail      == << "m" >>
MailDot   == << "m", "." >>

SeqUpTo(S, n) == UNION { [1..k -> S] : k \in 0..n }

(***************************************************************************)
(* event.go: entryName.  entry[len(entry)-1] is an index out of range on   *)
(* the empty string: the call panics.                                      *)
(***************************************************************************)
entryNamePanics(entry) == Len(entry) = 0

entryName(entry) ==
    IF entry[Len(entry)] = "."
    THEN SubSeq(entry, 1, Len(entry) - 1)
    ELSE entry

(***************************************************************************)
(* event.go: Records.HasRecord.  The loop returns at the first match, so   *)
(* a later record is not looked at.  Go evaluates the operands of == left  *)
(* to right; either call may panic.  Result: "true", "false" or "panic".   *)
(***************************************************************************)
RECURSIVE HasRecordFrom(_, _, _)
HasRecordFrom(r, entry, i) ==
    IF i > Len(r) THEN "false"
    ELSE IF entryNamePanics(r[i].Entry) \/ entryNamePanics(entry) THEN "panic"
    ELSE IF entryName(r[i].Entry) = entryName(entry) THEN "true"
    ELSE HasRecordFrom(r, entry, i + 1)

\* a mutant of HasRecord: the names are compared as they are written
HasRecordExact(r, entry) ==
    IF \E i \in 1..Len(r.elems) : r.elems[i].Entry = entry THEN "true" ELSE "false"

\* a mutant of HasRecord: the loop returns after its first record
HasRecordFirstOnly(r, entry) ==
    HasRecordFrom(SubSeq(r.elems, 1, IF r.elems = << >> THEN 0 ELSE 1), entry, 1)

HasRecord(r, entry) == HasRecordFrom(r.elems, entry, 1)

(***************************************************************************)
(* event.go: Event.Validate and the four error singletons.                 *)
(***************************************************************************)
ErrDatacenterIDInvalid          == "Datacenter VPC ID invalid"
ErrDatacenterRegionInvalid      == "Datacenter Region invalid"
ErrDatacenterCredentialsInvalid == "Datacenter credentials invalid"
ErrZoneNameInvalid              == "Route53 zone name invalid"
NoError == "nil"

ValidateSwapped(ev) ==
    IF ev.Name = EmptyName THEN ErrZoneNameInvalid
    ELSE IF ev.DatacenterRegion = "" THEN ErrDatacenterRegionInvalid
    ELSE IF ev.DatacenterSecret = "" \/ ev.DatacenterToken = ""
         THEN ErrDatacenterCredentialsInvalid
    ELSE IF ev.VPCID = "" THEN ErrDatacenterIDInvalid
    ELSE NoError

\* a mutant of Validate: the zone name is not checked
ValidateNoName(ev) ==
    IF ev.VPCID = "" THEN ErrDatacenterIDInvalid
    ELSE IF ev.DatacenterRegion = "" THEN ErrDatacenterRegionInvalid
    ELSE IF ev.DatacenterSecret = "" \/ ev.DatacenterToken = ""
         THEN ErrDatacenterCredentialsInvalid
    ELSE NoError

\* a mutant of Validate: a command without zone identity is refused
ValidateZoneID(ev) ==
    IF ev.VPCID = "" THEN ErrDatacenterIDInvalid
    ELSE IF ev.DatacenterRegion = "" THEN ErrDatacenterRegionInvalid
    ELSE IF ev.DatacenterSecret = "" \/ ev.DatacenterToken = ""
         THEN ErrDatacenterCredentialsInvalid
    ELSE IF ev.Name = EmptyName \/ ev.HostedZoneID = "" THEN ErrZoneNameInvalid
    ELSE NoError

Validate(ev) ==
    IF ev.VPCID = "" THEN ErrDatacenterIDInvalid
    ELSE IF ev.DatacenterRegion = "" THEN ErrDatacenterRegionInvalid
    ELSE IF ev.DatacenterSecret = "" \/ ev.DatacenterToken = ""
         THEN ErrDatacenterCredentialsInvalid
    ELSE IF ev.Name = EmptyName THEN ErrZoneNameInvalid
    ELSE NoError

(***************************************************************************)
(* main.go: the reconciler.                                                *)
(***************************************************************************)
RECURSIVE buildResourceRecords(_)
buildResourceRecords(values) ==
    IF values = << >> THEN << >>
    ELSE << [Value |-> Head(values)] >> \o buildResourceRecords(Tail(values))

isDefaultRulePanics(name, record) ==
    entryNamePanics(record.Name) \/ entryNamePanics(name)

\* a mutant of isDefaultRule: the SOA half only
isDefaultRuleSoaOnly(name, record) ==
    entryName(record.Name) = entryName(name) /\ record.Type = "SOA"

isDefaultRule(name, record) ==
    \/ entryName(record.Name) = entryName(name) /\ record.Type = "SOA"
    \/ entryName(record.Name) = entryName(name) /\ record.Type = "NS"

DeleteChange(recordSet) == [Action |-> "DELETE", ResourceRecordSet |-> recordSet]

(* The loop of buildRecordsToRemove from position i on.  && short-circuits: *)
(* isDefaultRule runs only when HasRecord returned false.                   *)
RECURSIVE buildRecordsToRemoveFrom(_, _, _)
buildRecordsToRemoveFrom(ev, existing, i) ==
    IF i > Len(existing) THEN [panic |-> FALSE, val |-> << >>]
    ELSE
      LET recordSet == existing[i]
          has       == HasRecord(ev.Records, recordSet.Name)
      IN  IF has = "panic" THEN [panic |-> TRUE, val |-> << >>]
          ELSE IF has = "false" /\ isDefaultRulePanics(ev.Name, recordSet)
               THEN [panic |-> TRUE, val |-> << >>]
          ELSE
            LET rest == buildRecordsToRemoveFrom(ev, existing, i + 1)
                mine == IF has = "false" /\ ~ isDefaultRule(ev.Name, recordSet)
                        THEN << DeleteChange(recordSet) >>
                        ELSE << >>
            IN  IF rest.panic THEN rest
                ELSE [panic |-> FALSE, val |-> mine \o rest.val]

buildRecordsToRemove(ev, existing) == buildRecordsToRemoveFrom(ev, existing, 1)

UpsertChange(record) ==
    [Action |-> "UPSERT",
     ResourceRecordSet |->
        [Name            |-> record.Entry,
         Type            |-> record.Type,
         TTL             |-> record.TTL,
         ResourceRecords |-> buildResourceRecords(record.Values)]]

RECURSIVE Upserts(_)
Upserts(records) ==
    IF records = << >> THEN << >>
    ELSE << UpsertChange(Head(records)) >> \o Upserts(Tail(records))

\* a mutant of buildChanges: the removals are put first
buildChangesRemovesFirst(ev, existing) ==
    LET changes == Upserts(ev.Records.elems)
        missing == buildRecordsToRemove(ev, existing)
    IN  IF missing.panic THEN [panic |-> TRUE, val |-> << >>]
        ELSE [panic |-> FALSE, val |-> missing.val \o changes]

buildChanges(ev, existing) ==
    LET changes == Upserts(ev.Records.elems)
        missing == buildRecordsToRemove(ev, existing)
    IN  IF missing.panic THEN [panic |-> TRUE, val |-> << >>]
        ELSE [panic |-> FALSE, val |-> changes \o missing.val]


(***************************************************************************)
(* The DNS provider behind the four calls of main.go.  A zone lists its    *)
(* record sets in a fixed order, with fully qualified names; a record set  *)
(* is identified by its name and its type.                                 *)
(***************************************************************************)
CanonicalName(name) ==
    IF name # << >> /\ name[Len(name)] = "." THEN name ELSE Append(name, ".")

SameKey(a, b) ==
    CanonicalName(a.Name) = CanonicalName(b.Name) /\ a.Type = b.Type

Stored(rs) == [rs EXCEPT !.Name = CanonicalName(rs.Name)]

RECURSIVE WithoutKey(_, _)
WithoutKey(records, rs) ==
    IF records = << >> THEN << >>
    ELSE IF SameKey(Head(records), rs) THEN WithoutKey(Tail(records), rs)
    ELSE << Head(records) >> \o WithoutKey(Tail(records), rs)

ApplyUpsert(records, rs) ==
    IF \E i \in 1..Len(records) : SameKey(records[i], rs)
    THEN [i \in 1..Len(records) |->
            IF SameKey(records[i], rs) THEN Stored(rs) ELSE records[i]]
    ELSE Append(records, Stored(rs))

ApplyChange(records, change) ==
    IF change.Action = "UPSERT"
    THEN ApplyUpsert(records, change.ResourceRecordSet)
    ELSE WithoutKey(records, change.ResourceRecordSet)

(* ChangeResourceRecordSets refuses a batch that names a record set with   *)
(* the empty name: no record of a zone has it.                             *)
BatchAccepted(changes) ==
    \A i \in 1..Len(changes) : changes[i].ResourceRecordSet.Name # << >>

(* ChangeResourceRecordSets: the batch is applied as a whole, in order.     *)
RECURSIVE ApplyBatch(_, _)
ApplyBatch(records, changes) ==
    IF changes = << >> THEN records
    ELSE ApplyBatch(ApplyChange(records, Head(changes)), Tail(changes))

(***************************************************************************)
(* The values the model draws.                                             *)
(***************************************************************************)
NilRecords    == [isNil |-> TRUE,  elems |-> << >>]
Slice(s)      == [isNil |-> FALSE, elems |-> s]

Rec(entry, type, ttl, value) ==
    [Entry |-> entry, Type |-> type, Values |-> << value >>, TTL |-> ttl]

RecWwwA     == Rec(Www,       "A",   300, "1.1.1.1")
RecWwwTxt   == Rec(WwwDot,    "TXT", 300, "hello")
RecWwwA60   == Rec(WwwDot,    "A",   60,  "2.2.2.2")
RecApexSoa  == Rec(Apex,      "SOA", 60,  "ns.custom")
RecMailA    == Rec(Mail,      "A",   300, "3.3.3.3")
RecEmpty    == Rec(EmptyName, "A",   300, "4.4.4.4")

DesiredUniverse ==
    { RecWwwA, RecWwwTxt, RecWwwA60, RecApexSoa, RecMailA, RecEmpty }

Rrs(name, type, ttl, value) ==
    [Name |-> name, Type |-> type, TTL |-> ttl,
     ResourceRecords |-> << [Value |-> value] >>]

DefaultSoa(name) == Rrs(CanonicalName(name), "SOA", 900,    "ns.aws")
DefaultNs(name)  == Rrs(CanonicalName(name), "NS",  172800, "ns.aws")

RemoteUniverse ==
    { DefaultSoa(Apex), DefaultNs(Apex),
      Rrs(WwwDot,  "A",   300, "1.1.1.1"),
      Rrs(MailDot, "TXT", 300, "mx"),
      Rrs(ApexDot, "A",   300, "5.5.5.5") }

ZeroEvent ==
    [UUID |-> "", BatchID |-> "", ProviderType |-> "", HostedZoneID |-> "",
     Name |-> EmptyName, Private |-> FALSE, Records |-> NilRecords,
     VPCID |-> "", DatacenterName |-> "", DatacenterRegion |-> "",
     DatacenterToken |-> "", DatacenterSecret |-> "", ErrorMessage |-> "",
     action |-> ""]

\* the event of event_test.go
testEvent ==
    [ZeroEvent EXCEPT !.UUID = "test", !.BatchID = "test",
                      !.ProviderType = "aws", !.VPCID = "vpc-00000000",
                      !.DatacenterRegion = "eu-west-1",
                      !.DatacenterSecret = "key", !.DatacenterToken = "token",
                      !.Name = Apex]


(***************************************************************************)
(* event.go: the wire form of an Event (the json tags of the struct) and   *)
(* encoding/json on it.  A document is a function from keys to values; a   *)
(* key left out by omitempty is outside its domain.  The unexported field  *)
(* action is never on the wire.                                            *)
(***************************************************************************)
AlwaysKeys ==
    { "_uuid", "_batch_id", "_type", "hosted_zone_id", "name", "private",
      "records", "vpc_id", "datacenter_region", "datacenter_token",
      "datacenter_secret" }

RecordToJson(r) ==
    [entry |-> r.Entry, type |-> r.Type, values |-> r.Values, ttl |-> r.TTL]

RecordFromJson(j) ==
    [Entry |-> j.entry, Type |-> j.type, Values |-> j.values, TTL |-> j.ttl]

RecordsToJson(rs) ==
    [null |-> rs.isNil,
     arr  |-> [i \in 1..Len(rs.elems) |-> RecordToJson(rs.elems[i])]]

\* a mutant of RecordsFromJson: null decodes to the empty slice
RecordsFromJsonNullAsEmpty(j) ==
    Slice([i \in 1..Len(j.arr) |-> RecordFromJson(j.arr[i])])

RecordsFromJson(j) ==
    IF j.null THEN NilRecords
    ELSE Slice([i \in 1..Len(j.arr) |-> RecordFromJson(j.arr[i])])

MarshalKeys(ev) ==
    AlwaysKeys
      \cup (IF ev.DatacenterName # "" THEN { "datacenter_name" } ELSE {})
      \cup (IF ev.ErrorMessage # "" THEN { "error_message" } ELSE {})

MarshalField(ev, k) ==
    CASE k = "_uuid"             -> ev.UUID
      [] k = "_batch_id"         -> ev.BatchID
      [] k = "_type"             -> ev.ProviderType
      [] k = "hosted_zone_id"    -> ev.HostedZoneID
      [] k = "name"              -> ev.Name
      [] k = "private"           -> ev.Private
      [] k = "records"           -> RecordsToJson(ev.Records)
      [] k = "vpc_id"            -> ev.VPCID
      [] k = "datacenter_name"   -> ev.DatacenterName
      [] k = "datacenter_region" -> ev.DatacenterRegion
      [] k = "datacenter_token"  -> ev.DatacenterToken
      [] k = "datacenter_secret" -> ev.DatacenterSecret
      [] k = "error_message"     -> ev.ErrorMessage

(* json.Marshal of an Event: strings, a bool, an int64 and slices of them   *)
(* always encode, so the error result is never set.                         *)
MarshalFails(ev) == FALSE

Marshal(ev) ==
    [wellFormed |-> TRUE,
     doc        |-> [k \in MarshalKeys(ev) |-> MarshalField(ev, k)]]

(* json.Unmarshal into ev: a key of the document sets its field, a field    *)
(* without a key keeps its value, a document that does not parse is an      *)
(* error and sets nothing.                                                  *)
Get(doc, k, old) == IF k \in DOMAIN doc THEN doc[k] ELSE old

Unmarshal(data, ev) ==
    IF ~ data.wellFormed THEN [err |-> TRUE, ev |-> ev]
    ELSE
      LET d == data.doc
      IN  [err |-> FALSE,
           ev  |->
             [UUID             |-> Get(d, "_uuid", ev.UUID),
              BatchID          |-> Get(d, "_batch_id", ev.BatchID),
              ProviderType     |-> Get(d, "_type", ev.ProviderType),
              HostedZoneID     |-> Get(d, "hosted_zone_id", ev.HostedZoneID),
              Name             |-> Get(d, "name", ev.Name),
              Private          |-> Get(d, "private", ev.Private),
              Records          |-> IF "records" \in DOMAIN d
                                   THEN RecordsFromJson(d["records"])
                                   ELSE ev.Records,
              VPCID            |-> Get(d, "vpc_id", ev.VPCID),
              DatacenterName   |-> Get(d, "datacenter_name", ev.DatacenterName),
              DatacenterRegion |-> Get(d, "datacenter_region", ev.DatacenterRegion),
              DatacenterToken  |-> Get(d, "datacenter_token", ev.DatacenterToken),
              DatacenterSecret |-> Get(d, "datacenter_secret", ev.DatacenterSecret),
              ErrorMessage     |-> Get(d, "error_message", ev.ErrorMessage),
              action           |-> ev.action]]

(***************************************************************************)
(* event.go: Process, Error, Complete.  A subject is the sequence of its   *)
(* dot-delimited segments; a publication is [subject, data].               *)
(***************************************************************************)
Subject(action) == << "route53", action, "aws" >>
ErrorSubject(action) == << "route53", action, "aws", "error" >>
\* a mutant of DoneSubject: the address the test listens on, whatever the action
DoneSubjectCreate(action) == << "route53", "create", "aws", "done" >>
DoneSubject(action)  == << "route53", action, "aws", "done" >>

Msg(subject, data) == [subject |-> subject, data |-> data]

NilData == [wellFormed |-> FALSE, doc |-> [raw |-> "nil"]]

\* a mutant of Process: the answer carries the event, not the bytes received
ProcessAnswersEvent(subject, data) ==
    LET ev0 == [ZeroEvent EXCEPT !.action = subject[2]]
        u   == Unmarshal(data, ev0)
    IN  [err  |-> u.err,
         ev   |-> u.ev,
         pubs |-> IF u.err THEN << Msg(ErrorSubject(ev0.action), Marshal(u.ev)) >>
                  ELSE << >>]

(* Process: [err, ev, pubs].  strings.Split(subject, ".")[1] is subject[2]. *)
Process(subject, data) ==
    LET ev0 == [ZeroEvent EXCEPT !.action = subject[2]]
        u   == Unmarshal(data, ev0)
    IN  [err  |-> u.err,
         ev   |-> u.ev,
         pubs |-> IF u.err THEN << Msg(ErrorSubject(ev0.action), data) >>
                  ELSE << >>]

\* a mutant of Error: the message is a fixed text, not the error's
ErrorGeneric(ev, errText) ==
    LET ev1 == [ev EXCEPT !.ErrorMessage = "error"]
    IN  [panic |-> FALSE, ev |-> ev1,
         pubs |-> << Msg(ErrorSubject(ev1.action), Marshal(ev1)) >>]

(* Error: [panic, ev, pubs].  log.Panic when the event does not encode.    *)
Error(ev, errText) ==
    LET ev1 == [ev EXCEPT !.ErrorMessage = errText]
    IN  IF MarshalFails(ev1)
        THEN [panic |-> TRUE, ev |-> ev1, pubs |-> << >>]
        ELSE [panic |-> FALSE, ev |-> ev1,
              pubs |-> << Msg(ErrorSubject(ev1.action), Marshal(ev1)) >>]

\* a mutant of Complete: it answers on the error address as well
CompleteTwice(ev) ==
    [panic |-> FALSE, ev |-> ev,
     pubs |-> << Msg(ErrorSubject(ev.action), Marshal(ev)),
                 Msg(DoneSubject(ev.action), Marshal(ev)) >>]

\* a mutant of Complete: the outcome leaves the records out
CompleteWithoutRecords(ev) ==
    [panic |-> FALSE, ev |-> ev,
     pubs |-> << Msg(DoneSubject(ev.action),
                     Marshal([ev EXCEPT !.Records = NilRecords])) >>]

(* Complete: [panic, ev, pubs].  After ev.Error(err) there is no return:   *)
(* the done publication follows, with the nil data of the failed Marshal.  *)
Complete(ev) ==
    IF MarshalFails(ev)
    THEN LET e == Error(ev, "json: error")
         IN  IF e.panic THEN e
             ELSE [panic |-> FALSE, ev |-> e.ev,
                   pubs |-> e.pubs \o << Msg(DoneSubject(e.ev.action), NilData) >>]
    ELSE [panic |-> FALSE, ev |-> ev,
          pubs |-> << Msg(DoneSubject(ev.action), Marshal(ev)) >>]


(***************************************************************************)
(* The inbound payloads of a run: the test's event, marshalled as the test *)
(* does, as it is and with fields changed, and a payload that is not JSON. *)
(***************************************************************************)
Actions == { "create", "update", "delete" }

ZoneIdOrder == << "Z1", "Z2", "Z3" >>

DesiredLists ==
    { NilRecords, Slice(<< >>), Slice(<< RecWwwTxt >>), Slice(<< RecEmpty >>),
      Slice(<< RecMailA, RecWwwA60 >>), Slice(<< RecApexSoa, RecEmpty >>) }

BaseEvent(action) ==
    [testEvent EXCEPT !.HostedZoneID = IF action = "create" THEN "" ELSE "Z1",
                      !.Records = Slice(<< RecWwwA >>)]

ValidEvents(action) ==
    LET b == BaseEvent(action)
    IN  { b, [b EXCEPT !.Name = ApexDot, !.Private = TRUE,
                       !.DatacenterName = "dc"] }
          \cup { [b EXCEPT !.Records = r] : r \in DesiredLists }
          \cup { [b EXCEPT !.HostedZoneID = z] : z \in { "", "Z1", "Z2" } }

InvalidEvents(action) ==
    LET b == BaseEvent(action)
    IN  { [b EXCEPT !.VPCID = ""], [b EXCEPT !.DatacenterRegion = ""],
          [b EXCEPT !.DatacenterSecret = ""], [b EXCEPT !.DatacenterToken = ""],
          [b EXCEPT !.Name = EmptyName],
          [b EXCEPT !.VPCID = "", !.Name = EmptyName] }

Garbage == [wellFormed |-> FALSE, doc |-> [raw |-> "{not json"]]

Payloads(action) ==
    { Marshal(e) : e \in ValidEvents(action) \cup InvalidEvents(action) }
      \cup { Garbage }

(***************************************************************************)
(* State.                                                                  *)
(*   handlers  one per subscription of main(): the NATS client delivers a  *)
(*             subscription's messages one at a time, and the three        *)
(*             subscriptions concurrently                                  *)
(*   zones     the provider's hosted zones                                 *)
(*   nzones    how many zone identities the provider has handed out        *)
(*   msgs      how many messages the transport has delivered               *)
(*   crashed   a panic left a handler goroutine: the process is gone       *)
(*   pure      the input and result of a function applied on its own       *)
(***************************************************************************)
VARIABLES handlers, zones, nzones, msgs, crashed, pure

vars == << handlers, zones, nzones, msgs, crashed, pure >>

NilPtr == [isNil |-> TRUE]

ProviderError == "provider: request failed"

NoZone == [state |-> "none", Name |-> EmptyName, records |-> << >>]

IdleHandler ==
    [pc |-> "idle", subject |-> << >>, data |-> NilData, ev |-> ZeroEvent,
     changes |-> << >>, calls |-> << >>, pubs |-> << >>]

InitialRecords ==
    << DefaultSoa(Apex), DefaultNs(Apex),
       Rrs(WwwDot, "A", 300, "1.1.1.1"), Rrs(MailDot, "TXT", 300, "mx") >>

NoResult == [panic |-> FALSE, val |-> << >>]

(* One run of updateRoute53: the listing it got (existing), the batch it   *)
(* built from it (out), whether the provider accepted the batch, and the   *)
(* zone's content just before and just after the provider applied it.      *)
NoUpdate ==
    [listed |-> FALSE, existing |-> << >>, out |-> NoResult,
     accepted |-> FALSE, before |-> << >>, after |-> << >>]

(* pure: the function applied (op), its inputs (ev, existing, name,        *)
(* subject), whether it has run (done) and what it gave: err of Validate;  *)
(* out of entryName, HasRecord and buildChanges; pubs the publications.    *)
(* For updateRoute53, run twice with one command: the zone at the provider *)
(* (zone), which run is on (round), where it is (pc) and the two runs;     *)
(* other is the delete command at work on the same zone: where it is and   *)
(* the batch it built from its own listing.                                *)
NoPure ==
    [op |-> "none", done |-> FALSE, ev |-> ZeroEvent, existing |-> << >>,
     name |-> EmptyName, subject |-> << >>,
     err |-> NoError, out |-> NoResult, pubs |-> << >>,
     zone |-> NoZone, round |-> 1, pc |-> "none",
     other |-> [pc |-> "none", changes |-> << >>],
     updates |-> << NoUpdate, NoUpdate >>]

(* The process has subscribed and handled nothing yet; the account holds    *)
(* one zone, Z1, named a, with its default records and two more.            *)
InitHandlers ==
    /\ handlers = [h \in Actions |-> IdleHandler]
    /\ zones = [z \in { ZoneIdOrder[i] : i \in 1..Len(ZoneIdOrder) } |->
                  IF z = "Z1"
                  THEN [state |-> "live", Name |-> Apex, records |-> InitialRecords]
                  ELSE NoZone]
    /\ nzones = 1
    /\ msgs = 0
    /\ crashed = FALSE

Init == InitHandlers /\ pure = NoPure

IsLive(id) == id \in DOMAIN zones /\ zones[id].state = "live"

(* The handler leaves through Error or Complete (res), or dies in a panic.  *)
Leave(h, st, res) ==
    /\ handlers' = [handlers EXCEPT ![h] =
            [st EXCEPT !.ev = res.ev,
                       !.pubs = st.pubs \o res.pubs,
                       !.pc = IF res.panic THEN "panicked" ELSE "returned"]]
    /\ crashed' = (crashed \/ res.panic)

\* a mutant of ClearRecords: the payload's records stay
ClearRecordsKept(ev) == ev

(* deleteRoute53: ev.Records = nil                                          *)
ClearRecords(ev) == [ev EXCEPT !.Records = NilRecords]

(* eventHandler up to its first provider call: Process, Validate, and the   *)
(* switch on parts[1]; deleteRoute53 clears the records before it updates.  *)
Receive(h, data) ==
    /\ ~ crashed
    /\ msgs < MaxMsgs
    /\ handlers[h].pc \in { "idle", "returned" }
    /\ msgs' = msgs + 1
    /\ LET subject == Subject(h)
           p   == Process(subject, data)
           st  == [IdleHandler EXCEPT !.subject = subject, !.data = data,
                                      !.ev = p.ev, !.pubs = p.pubs]
           err == Validate(p.ev)
       IN  IF p.err
           THEN /\ handlers' = [handlers EXCEPT ![h] = [st EXCEPT !.pc = "returned"]]
                /\ UNCHANGED crashed
           ELSE IF err # NoError
           THEN Leave(h, st, Error(p.ev, err))
           ELSE /\ handlers' = [handlers EXCEPT ![h] =
                      CASE subject[2] = "create" -> [st EXCEPT !.pc = "create"]
                        [] subject[2] = "update" -> [st EXCEPT !.pc = "list"]
                        [] subject[2] = "delete" ->
                             [st EXCEPT !.pc = "list", !.ev = ClearRecords(p.ev)]]
                /\ UNCHANGED crashed
    /\ UNCHANGED << zones, nzones, pure >>

\* a mutant of CreateHostedZoneInput: the VPC goes with every request
CreateHostedZoneInputWithVpc(ev) ==
    [CallerReference  |-> "uuid.NewV4",
     Name             |-> ev.Name,
     HostedZoneConfig |-> IF ev.Private = TRUE
                          THEN [isNil |-> FALSE, PrivateZone |-> ev.Private]
                          ELSE NilPtr,
     VPC              |-> [isNil |-> FALSE, VPCId |-> ev.VPCID,
                           VPCRegion |-> ev.DatacenterRegion]]

(* createRoute53: the request and the CreateHostedZone call.                *)
CreateHostedZoneInput(ev) ==
    [CallerReference  |-> "uuid.NewV4",
     Name             |-> ev.Name,
     HostedZoneConfig |-> IF ev.Private = TRUE
                          THEN [isNil |-> FALSE, PrivateZone |-> ev.Private]
                          ELSE NilPtr,
     VPC              |-> IF ev.Private = TRUE
                          THEN [isNil |-> FALSE, VPCId |-> ev.VPCID,
                                VPCRegion |-> ev.DatacenterRegion]
                          ELSE NilPtr]

\* a mutant of StoreZoneID: the returned identity is dropped
StoreZoneIDDropped(ev, id) == ev

(* createRoute53: ev.HostedZoneID = *resp.HostedZone.Id                     *)
StoreZoneID(ev, id) == [ev EXCEPT !.HostedZoneID = id]

CallCreateHostedZone(h, ok) ==
    LET st   == handlers[h]
        req  == CreateHostedZoneInput(st.ev)
        id   == IF ok THEN ZoneIdOrder[nzones + 1] ELSE ""
        call == [op |-> "CreateHostedZone", req |-> req, ok |-> ok, resp |-> id]
        st1  == [st EXCEPT !.calls = Append(@, call)]
    IN  /\ ~ crashed
        /\ st.pc = "create"
        /\ ok => nzones < Len(ZoneIdOrder)
        /\ IF ok
           THEN /\ zones' = [zones EXCEPT ![id] =
                      [state |-> "live", Name |-> req.Name,
                       records |-> << DefaultSoa(req.Name), DefaultNs(req.Name) >>]]
                /\ nzones' = nzones + 1
                /\ handlers' = [handlers EXCEPT ![h] =
                      [st1 EXCEPT !.ev = StoreZoneID(st.ev, id), !.pc = "list"]]
                /\ UNCHANGED crashed
           ELSE /\ Leave(h, st1, Error(st.ev, ProviderError))
                /\ UNCHANGED << zones, nzones >>
        /\ UNCHANGED << msgs, pure >>

(* updateRoute53, first half: getZoneRecords, then buildChanges on the      *)
(* listing while the ChangeResourceRecordSets request is put together.      *)
CallListResourceRecordSets(h, ok) ==
    LET st   == handlers[h]
        id   == st.ev.HostedZoneID
        zr   == IF ok THEN zones[id].records ELSE << >>
        call == [op |-> "ListResourceRecordSets", HostedZoneId |-> id,
                 ok |-> ok, resp |-> zr]
        st1  == [st EXCEPT !.calls = Append(@, call)]
        ch   == buildChanges(st.ev, zr)
    IN  /\ ~ crashed
        /\ st.pc = "list"
        /\ ok => IsLive(id)
        /\ IF ~ ok
           THEN Leave(h, st1, Error(st.ev, ProviderError))
           ELSE IF ch.panic
           THEN /\ handlers' = [handlers EXCEPT ![h] = [st1 EXCEPT !.pc = "panicked"]]
                /\ crashed' = TRUE
           ELSE /\ handlers' = [handlers EXCEPT ![h] =
                      [st1 EXCEPT !.changes = ch.val, !.pc = "submit"]]
                /\ UNCHANGED crashed
        /\ UNCHANGED << zones, nzones, msgs, pure >>

(* updateRoute53, second half: ChangeResourceRecordSets; on success the     *)
(* update is over, and create and update complete while delete goes on.     *)
CallChangeResourceRecordSets(h, ok) ==
    LET st   == handlers[h]
        id   == st.ev.HostedZoneID
        call == [op |-> "ChangeResourceRecordSets", HostedZoneId |-> id,
                 Changes |-> st.changes, ok |-> ok]
        st1  == [st EXCEPT !.calls = Append(@, call), !.changes = << >>]
    IN  /\ ~ crashed
        /\ st.pc = "submit"
        /\ ok => IsLive(id) /\ BatchAccepted(st.changes)
        /\ IF ok
           THEN /\ zones' = [zones EXCEPT ![id].records = ApplyBatch(@, st.changes)]
                /\ IF st.ev.action = "delete"
                   THEN /\ handlers' = [handlers EXCEPT ![h] = [st1 EXCEPT !.pc = "delete"]]
                        /\ UNCHANGED crashed
                   ELSE Leave(h, st1, Complete(st.ev))
           ELSE /\ Leave(h, st1, Error(st.ev, ProviderError))
                /\ UNCHANGED zones
        /\ UNCHANGED << nzones, msgs, pure >>

(* deleteRoute53 after its update: DeleteHostedZone.                        *)
CallDeleteHostedZone(h, ok) ==
    LET st   == handlers[h]
        id   == st.ev.HostedZoneID
        call == [op |-> "DeleteHostedZone", Id |-> id, ok |-> ok]
        st1  == [st EXCEPT !.calls = Append(@, call)]
    IN  /\ ~ crashed
        /\ st.pc = "delete"
        /\ ok => IsLive(id)
        /\ IF ok
           THEN /\ zones' = [zones EXCEPT ![id].state = "deleted", ![id].records = << >>]
                /\ Leave(h, st1, Complete(st.ev))
           ELSE /\ Leave(h, st1, Error(st.ev, ProviderError))
                /\ UNCHANGED zones
        /\ UNCHANGED << nzones, msgs, pure >>

Next ==
    \/ \E h \in Actions : \E data \in Payloads(h) : Receive(h, data)
    \/ \E h \in Actions : \E ok \in BOOLEAN : CallCreateHostedZone(h, ok)
    \/ \E h \in Actions : \E ok \in BOOLEAN : CallListResourceRecordSets(h, ok)
    \/ \E h \in Actions : \E ok \in BOOLEAN : CallChangeResourceRecordSets(h, ok)
    \/ \E h \in Actions : \E ok \in BOOLEAN : CallDeleteHostedZone(h, ok)

Spec == Init /\ [][Next]_vars


(***************************************************************************)
(* The functions on their own: Validate on an event, and the update's      *)
(* computation (buildChanges on a listing, then the batch applied to the   *)
(* zone that was listed) with no other command in between.                 *)
(***************************************************************************)
ValidateEvents ==
    { [testEvent EXCEPT !.VPCID = v, !.DatacenterRegion = r,
                        !.DatacenterSecret = s, !.DatacenterToken = t,
                        !.Name = n, !.HostedZoneID = z, !.Private = p]
        : v \in { "", "vpc-00000000" }, r \in { "", "eu-west-1" },
          s \in { "", "key" }, t \in { "", "token" }, n \in { EmptyName, Apex },
          z \in { "", "Z1" }, p \in BOOLEAN }

\* names as they reach entryName: with no dot, one dot, two dots, only a
\* dot, in either letter case, and the empty name
NameUniverse ==
    { EmptyName, Apex, ApexDot, << "a", ".", "." >>, << "A" >>, << "A", "." >>,
      << "." >>, Www }

\* commands to encode, decode and complete: every combination of these
RoundTripEvents ==
    { [testEvent EXCEPT !.Private = p, !.Records = r, !.DatacenterName = dn,
                        !.ErrorMessage = em, !.HostedZoneID = z, !.Name = n,
                        !.VPCID = v]
        : p \in BOOLEAN,
          r \in { NilRecords, Slice(<< >>), Slice(<< RecWwwA >>),
                  Slice(<< RecEmpty, RecWwwTxt >>) },
          dn \in { "", "dc" }, em \in { "", "earlier error" },
          z \in { "", "Z1" }, n \in { EmptyName, ApexDot },
          v \in { "", "vpc-00000000" } }

IsInjective(s) == \A i, j \in 1..Len(s) : s[i] = s[j] => i = j

\* the contents of a zone named a: its apex SOA and NS records, then some of
\* the other records, each at most once, in any order
ZoneContents ==
    { << DefaultSoa(Apex), DefaultNs(Apex) >> \o x
        : x \in { y \in SeqUpTo(RemoteUniverse \ { DefaultSoa(Apex), DefaultNs(Apex) },
                                MaxRemote) : IsInjective(y) } }

\* the inputs of the functions, and of updateRoute53 with the zone it meets
InitPure ==
    /\ InitHandlers
    /\ \/ \E e \in ValidateEvents :
             pure = [NoPure EXCEPT !.op = "Validate", !.ev = e]
       \/ \E x \in NameUniverse :
             pure = [NoPure EXCEPT !.op = "entryName", !.name = x]
       \/ \E x \in NameUniverse, y \in NameUniverse :
             pure = [NoPure EXCEPT
                       !.op = "HasRecord", !.name = x,
                       !.ev = [testEvent EXCEPT
                                 !.Records = Slice(<< Rec(y, "A", 300, "1.1.1.1") >>)]]
       \/ \E e \in RoundTripEvents, a \in Actions :
             pure = [NoPure EXCEPT !.op = "Complete", !.ev = e,
                                   !.subject = Subject(a)]
       \/ \E n \in { Apex, ApexDot }, d \in SeqUpTo(DesiredUniverse, MaxLen),
             r \in SeqUpTo(RemoteUniverse, MaxRemote) :
             pure = [NoPure EXCEPT
                       !.op = "buildChanges",
                       !.ev = [testEvent EXCEPT !.Name = n, !.Records = Slice(d)],
                       !.existing = r]
       \/ \E n \in { Apex, ApexDot }, d \in SeqUpTo(DesiredUniverse, MaxLen),
             r \in ZoneContents :
             pure = [NoPure EXCEPT
                       !.op = "updateRoute53", !.pc = "list",
                       !.other = [pc |-> "list", changes |-> << >>],
                       !.ev = [testEvent EXCEPT !.Name = n, !.Records = Slice(d)],
                       !.zone = [state |-> "live", Name |-> Apex, records |-> r]]

ApplyValidate ==
    /\ pure.op = "Validate"
    /\ ~ pure.done
    /\ pure' = [pure EXCEPT !.done = TRUE, !.err = Validate(pure.ev)]
    /\ UNCHANGED << handlers, zones, nzones, msgs, crashed >>

ApplyEntryName ==
    /\ pure.op = "entryName"
    /\ ~ pure.done
    /\ pure' = [pure EXCEPT !.done = TRUE,
                            !.out = IF entryNamePanics(pure.name)
                                    THEN [panic |-> TRUE, val |-> << >>]
                                    ELSE [panic |-> FALSE,
                                          val |-> entryName(pure.name)]]
    /\ UNCHANGED << handlers, zones, nzones, msgs, crashed >>

ApplyHasRecord ==
    /\ pure.op = "HasRecord"
    /\ ~ pure.done
    /\ LET has == HasRecord(pure.ev.Records, pure.name)
       IN  pure' = [pure EXCEPT !.done = TRUE,
                                !.out = [panic |-> has = "panic", val |-> has]]
    /\ UNCHANGED << handlers, zones, nzones, msgs, crashed >>

(* event_test.go, "With a valid event": the event is encoded, the bytes go *)
(* through Process, and Complete answers.                                  *)
ApplyProcessComplete ==
    /\ pure.op = "Complete"
    /\ ~ pure.done
    /\ LET p == Process(pure.subject, Marshal(pure.ev))
           c == Complete(p.ev)
       IN  pure' = [pure EXCEPT !.done = TRUE, !.pubs = p.pubs \o c.pubs,
                                !.out = [panic |-> c.panic, val |-> << >>]]
    /\ UNCHANGED << handlers, zones, nzones, msgs, crashed >>

(* buildChanges on a desired list and a listing.                           *)
ApplyBuildChanges ==
    /\ pure.op = "buildChanges"
    /\ ~ pure.done
    /\ pure' = [pure EXCEPT !.done = TRUE,
                            !.out = buildChanges(pure.ev, pure.existing)]
    /\ UNCHANGED << handlers, zones, nzones, msgs, crashed >>

(* updateRoute53, twice with one command, as the handler of the update     *)
(* subscription runs it: call by call, the provider answering each call on *)
(* the zone as it then is, while a delete command of the delete            *)
(* subscription may be at work on the same zone.                           *)
ZoneLive(zone) == zone.state = "live"

(* updateRoute53, first half: getZoneRecords, then buildChanges on the     *)
(* listing.                                                                *)
UpdateLists(ok) ==
    /\ pure.op = "updateRoute53"
    /\ pure.pc = "list"
    /\ ok => ZoneLive(pure.zone)
    /\ LET ch == buildChanges(pure.ev, pure.zone.records)
           u  == [NoUpdate EXCEPT !.listed = TRUE,
                                  !.existing = pure.zone.records, !.out = ch]
       IN  pure' = IF ~ ok THEN [pure EXCEPT !.pc = "failed"]
                   ELSE [pure EXCEPT !.updates[pure.round] = u,
                                     !.pc = IF ch.panic THEN "panicked"
                                            ELSE "submit"]
    /\ UNCHANGED << handlers, zones, nzones, msgs, crashed >>

(* updateRoute53, second half: ChangeResourceRecordSets.  The provider     *)
(* applies the batch to the zone as it is when the batch arrives.          *)
UpdateSubmits(ok) ==
    /\ pure.op = "updateRoute53"
    /\ pure.pc = "submit"
    /\ LET u     == pure.updates[pure.round]
           after == ApplyBatch(pure.zone.records, u.out.val)
       IN  /\ ok => ZoneLive(pure.zone) /\ BatchAccepted(u.out.val)
           /\ pure' =
                 IF ~ ok THEN [pure EXCEPT !.pc = "failed"]
                 ELSE [pure EXCEPT
                         !.updates[pure.round] =
                            [u EXCEPT !.accepted = TRUE,
                                      !.before = pure.zone.records,
                                      !.after = after],
                         !.zone.records = after,
                         !.round = 2,
                         !.pc = IF pure.round = 1 THEN "list" ELSE "over"]
    /\ UNCHANGED << handlers, zones, nzones, msgs, crashed >>

(* The delete command on the same zone, in the handler of the delete       *)
(* subscription.  deleteRoute53, the first half of its updateRoute53: the  *)
(* records cleared, getZoneRecords, then buildChanges on that listing.     *)
DeleteLists(ok) ==
    /\ pure.op = "updateRoute53"
    /\ pure.other.pc = "list"
    /\ ok => ZoneLive(pure.zone)
    /\ LET ev == ClearRecords([testEvent EXCEPT !.Name = pure.zone.Name])
           ch == buildChanges(ev, pure.zone.records)
       IN  pure' = IF ~ ok THEN [pure EXCEPT !.other.pc = "failed"]
                   ELSE IF ch.panic THEN [pure EXCEPT !.other.pc = "panicked"]
                   ELSE [pure EXCEPT !.other = [pc |-> "submit", changes |-> ch.val]]
    /\ UNCHANGED << handlers, zones, nzones, msgs, crashed >>

(* deleteRoute53, the second half of its updateRoute53: the batch of its   *)
(* listing goes to the provider, which applies it to the zone as it is.    *)
DeleteSubmits(ok) ==
    /\ pure.op = "updateRoute53"
    /\ pure.other.pc = "submit"
    /\ ok => ZoneLive(pure.zone) /\ BatchAccepted(pure.other.changes)
    /\ pure' = IF ~ ok THEN [pure EXCEPT !.other.pc = "failed"]
               ELSE [pure EXCEPT
                       !.other = [pc |-> "remove", changes |-> << >>],
                       !.zone.records = ApplyBatch(pure.zone.records,
                                                   pure.other.changes)]
    /\ UNCHANGED << handlers, zones, nzones, msgs, crashed >>

(* deleteRoute53 after its update: DeleteHostedZone.                       *)
DeleteRemoves(ok) ==
    /\ pure.op = "updateRoute53"
    /\ pure.other.pc = "remove"
    /\ ok => ZoneLive(pure.zone)
    /\ pure' = IF ~ ok THEN [pure EXCEPT !.other.pc = "failed"]
               ELSE [pure EXCEPT !.other.pc = "returned",
                                 !.zone.state = "deleted",
                                 !.zone.records = << >>]
    /\ UNCHANGED << handlers, zones, nzones, msgs, crashed >>

NextPure ==
    \/ ApplyValidate
    \/ ApplyEntryName
    \/ ApplyHasRecord
    \/ ApplyProcessComplete
    \/ ApplyBuildChanges
    \/ \E ok \in BOOLEAN : UpdateLists(ok)
    \/ \E ok \in BOOLEAN : UpdateSubmits(ok)
    \/ \E ok \in BOOLEAN : DeleteLists(ok)
    \/ \E ok \in BOOLEAN : DeleteSubmits(ok)
    \/ \E ok \in BOOLEAN : DeleteRemoves(ok)

SpecPure == InitPure /\ [][NextPure]_vars

(***************************************************************************)
(* The specification's own words, used to state the claims.                *)
(***************************************************************************)
\* normalized(x): x without one trailing dot
Normalized(x) ==
    IF x # << >> /\ x[Len(x)] = "." THEN SubSeq(x, 1, Len(x) - 1) ELSE x

\* a remote record is protected: an SOA or NS record at the zone apex
Protected(zoneName, rs) ==
    Normalized(rs.Name) = Normalized(zoneName) /\ rs.Type \in { "SOA", "NS" }

Range(s) == { s[i] : i \in 1..Len(s) }

Min(S) == CHOOSE x \in S : \A y \in S : x <= y

IsPrefix(s, t) == Len(s) <= Len(t) /\ \A i \in 1..Len(s) : s[i] = t[i]

WithAction(changes, action) ==
    SelectSeq(changes, LAMBDA c : c.Action = action)

(***************************************************************************)
(* C2.                                                                     *)
(***************************************************************************)
FailingChecks(ev) ==
    (IF ev.VPCID = "" THEN { 1 } ELSE {})
      \cup (IF ev.DatacenterRegion = "" THEN { 2 } ELSE {})
      \cup (IF ev.DatacenterSecret = "" \/ ev.DatacenterToken = "" THEN { 3 } ELSE {})
      \cup (IF ev.Name = EmptyName THEN { 4 } ELSE {})

CheckError(i) ==
    << ErrDatacenterIDInvalid, ErrDatacenterRegionInvalid,
       ErrDatacenterCredentialsInvalid, ErrZoneNameInvalid >>[i]

\* C2: Validate answers with the error of the lowest-numbered failing check
\* among (1) vpc_id, (2) datacenter_region, (3) secret and token, (4) name,
\* and with no error iff no check fails; no other field has a say.
C2_ValidateFirstFailing ==
    (pure.op = "Validate" /\ pure.done) =>
        /\ (pure.err = NoError) <=> (FailingChecks(pure.ev) = {})
        /\ FailingChecks(pure.ev) # {} =>
              pure.err = CheckError(Min(FailingChecks(pure.ev)))

\* witness of C2: a command without vpc_id and without name got the VPC error
C2_Witness ==
    /\ pure.op = "Validate" /\ pure.done
    /\ pure.ev.VPCID = "" /\ pure.ev.Name = EmptyName
    /\ pure.err = ErrDatacenterIDInvalid

(***************************************************************************)
(* C3.                                                                     *)
(***************************************************************************)
Visible(rs) == [rs EXCEPT !.Name = Normalized(rs.Name)]

DesiredSet(ev) ==
    { Visible(UpsertChange(d).ResourceRecordSet) : d \in Range(ev.Records.elems) }

NonProtectedSet(zoneName, records) ==
    { Visible(r) : r \in { x \in Range(records) : ~ Protected(zoneName, x) } }

ProtectedUntouched(zoneName, before, after) ==
    /\ \A r \in Range(before) : Protected(zoneName, r) => r \in Range(after)
    /\ \A r \in Range(after) : Protected(zoneName, r) => r \in Range(before)

DistinctKeys(records) ==
    \A i, j \in 1..Len(records) : SameKey(records[i], records[j]) => i = j

\* the first and the second run of updateRoute53
First  == pure.updates[1]
Second == pure.updates[2]

\* the update went through, and nothing else changed the zone between its
\* listing and its batch
UpdateSucceeded ==
    /\ pure.op = "updateRoute53"
    /\ First.accepted
    /\ First.before = First.existing
    /\ DistinctKeys(First.existing)

UpdateReconciles ==
    /\ NonProtectedSet(pure.ev.Name, First.after) = DesiredSet(pure.ev)
    /\ ProtectedUntouched(pure.ev.Name, First.existing, First.after)

\* C3 as stated: after a successful update of an otherwise untouched zone the
\* non-protected records are the desired records, the apex SOA/NS untouched.
C3_Original == UpdateSucceeded => UpdateReconciles

\* every remote record whose name a desired record carries has the type of a
\* desired record of that name
TypesAgree ==
    \A r \in Range(First.existing) :
        (/\ ~ Protected(pure.ev.Name, r)
         /\ \E d \in Range(pure.ev.Records.elems) :
               Normalized(d.Entry) = Normalized(r.Name))
        => \E d \in Range(pure.ev.Records.elems) :
               Normalized(d.Entry) = Normalized(r.Name) /\ d.Type = r.Type

NoDefaultDesired ==
    \A d \in Range(pure.ev.Records.elems) :
        ~ Protected(pure.ev.Name, UpsertChange(d).ResourceRecordSet)

NoKeyClash ==
    \A d, e \in Range(pure.ev.Records.elems) :
        (Normalized(d.Entry) = Normalized(e.Entry) /\ d.Type = e.Type) => d = e

\* C3 amended: the same, provided that every remote record sharing its name
\* with a desired record also shares its type with a desired record of that
\* name, that no desired record is an apex SOA/NS record, and that no two
\* desired records of one name and type differ.
C3_Amended ==
    (UpdateSucceeded /\ TypesAgree /\ NoDefaultDesired /\ NoKeyClash)
        => UpdateReconciles

\* witness of C3: such an update that upserted, deleted and kept an apex record
C3_Witness ==
    /\ UpdateSucceeded /\ TypesAgree /\ NoDefaultDesired /\ NoKeyClash
    /\ WithAction(First.out.val, "UPSERT") # << >>
    /\ WithAction(First.out.val, "DELETE") # << >>
    /\ \E r \in Range(First.existing) : Protected(pure.ev.Name, r)
    /\ \E r \in Range(First.existing) :
          \E d \in Range(pure.ev.Records.elems) :
              Normalized(d.Entry) = Normalized(r.Name)

(***************************************************************************)
(* C5, C6.                                                                 *)
(***************************************************************************)
\* C5: for every desired list and every listing buildChanges yields a change
\* sequence whose Upserts are the desired records, one each, in their order,
\* with their name, type, TTL and values.
C5_UpsertsAreDesired ==
    (pure.op = "buildChanges" /\ pure.done) =>
        /\ ~ pure.out.panic
        /\ LET ups == WithAction(pure.out.val, "UPSERT")
               d   == pure.ev.Records.elems
           IN  /\ Len(ups) = Len(d)
               /\ \A i \in 1..Len(d) :
                     /\ ups[i].ResourceRecordSet.Name = d[i].Entry
                     /\ ups[i].ResourceRecordSet.Type = d[i].Type
                     /\ ups[i].ResourceRecordSet.TTL = d[i].TTL
                     /\ ups[i].ResourceRecordSet.ResourceRecords =
                          [k \in 1..Len(d[i].Values) |-> [Value |-> d[i].Values[k]]]

ShouldDelete(ev, r) ==
    /\ ~ \E d \in Range(ev.Records.elems) : Normalized(d.Entry) = Normalized(r.Name)
    /\ ~ Protected(ev.Name, r)

\* C6: for every desired list, listing and zone name the Delete changes are
\* the remote records that no desired record matches by normalized name and
\* that are not apex SOA/NS records, one Delete each and no other.
C6_DeletesAreUnmatched ==
    (pure.op = "buildChanges" /\ pure.done) =>
        /\ ~ pure.out.panic
        /\ LET dels == WithAction(pure.out.val, "DELETE")
               want == SelectSeq(pure.existing, LAMBDA r : ShouldDelete(pure.ev, r))
           IN  dels = [i \in 1..Len(want) |-> DeleteChange(want[i])]


(***************************************************************************)
(* Claims on the handlers.                                                 *)
(***************************************************************************)
Ended(st) == st.pc \in { "returned", "panicked" }

\* what Process decoded from the payload of the command in hand
Decoded(st) == Process(st.subject, st.data).ev

\* the command decoded and passed the four checks
Dispatched(st) ==
    st.pc # "idle" /\ st.data.wellFormed /\ FailingChecks(Decoded(st)) = {}

IsOutcome(st, m) ==
    m.subject \in { DoneSubject(st.subject[2]), ErrorSubject(st.subject[2]) }

\* C1: every command handled gets exactly one outcome, a done or an error
\* message: never two while it is handled, and one when its handling is over.
C1_ExactlyOneOutcome ==
    \A h \in Actions :
        LET st == handlers[h]
        IN  st.pc # "idle" =>
              /\ Len(st.pubs) <= 1
              /\ \A i \in 1..Len(st.pubs) : IsOutcome(st, st.pubs[i])
              /\ Ended(st) => Len(st.pubs) = 1

(***************************************************************************)
(* C4.                                                                     *)
(***************************************************************************)
HasApex(zone, type) ==
    \E r \in Range(zone.records) : Protected(zone.Name, r) /\ r.Type = type

\* C4: while a zone exists its apex SOA and NS records are there, and no
\* batch submitted by a command named after the zone's apex holds a Delete of
\* a record at that apex of type SOA or NS.
C4_ApexDefaultsKept ==
    /\ \A z \in DOMAIN zones :
          zones[z].state = "live" => HasApex(zones[z], "SOA") /\ HasApex(zones[z], "NS")
    /\ \A h \in Actions :
          LET st == handlers[h]
          IN  \A i \in 1..Len(st.calls) :
                (/\ st.calls[i].op = "ChangeResourceRecordSets"
                 /\ Normalized(st.ev.Name) =
                      Normalized(zones[st.calls[i].HostedZoneId].Name))
                => \A c \in Range(st.calls[i].Changes) :
                      c.Action = "DELETE" =>
                        ~ Protected(zones[st.calls[i].HostedZoneId].Name,
                                    c.ResourceRecordSet)

\* witness of C4: a delete command drained a zone down to its apex SOA and NS
C4_Witness ==
    /\ handlers["delete"].pc = "delete"
    /\ handlers["delete"].ev.Records = NilRecords
    /\ LET call == handlers["delete"].calls[2]
       IN  /\ call.ok
           /\ WithAction(call.Changes, "DELETE") # << >>
           /\ zones[call.HostedZoneId].state = "live"
           /\ Len(zones[call.HostedZoneId].records) = 2
           /\ HasApex(zones[call.HostedZoneId], "SOA")
           /\ HasApex(zones[call.HostedZoneId], "NS")

(***************************************************************************)
(* C7.                                                                     *)
(***************************************************************************)
ExpectedCalls(action) ==
    CASE action = "create" ->
           << "CreateHostedZone", "ListResourceRecordSets", "ChangeResourceRecordSets" >>
      [] action = "update" ->
           << "ListResourceRecordSets", "ChangeResourceRecordSets" >>
      [] action = "delete" ->
           << "ListResourceRecordSets", "ChangeResourceRecordSets", "DeleteHostedZone" >>

Ops(calls) == [i \in 1..Len(calls) |-> calls[i].op]

\* C7: the provider calls of a command are a prefix of its action's sequence,
\* every call but the last succeeded, and when the handling is over the last
\* call failed or the sequence is complete (so a listing that succeeded was
\* followed by the batch, and the zone is deleted only after the batch).
C7_CallSequence ==
    \A h \in Actions :
        LET st == handlers[h]
        IN  Dispatched(st) =>
              /\ IsPrefix(Ops(st.calls), ExpectedCalls(st.subject[2]))
              /\ \A i \in 1..(Len(st.calls) - 1) : st.calls[i].ok
              /\ Ended(st) =>
                    \/ st.calls # << >> /\ ~ st.calls[Len(st.calls)].ok
                    \/ Ops(st.calls) = ExpectedCalls(st.subject[2])

(***************************************************************************)
(* C8.                                                                     *)
(***************************************************************************)
Created(st) ==
    st.calls # << >> /\ st.calls[1].op = "CreateHostedZone" /\ st.calls[1].ok

\* C8: once CreateZone returned identity z, the listing and the batch of that
\* command go to z and its outcome carries z, whatever the payload carried;
\* the identity is assigned at most once: it is z after a successful create
\* and the payload's value in every other state.
C8_ZoneIdentityThreaded ==
    \A h \in Actions :
        LET st == handlers[h]
            z  == st.calls[1].resp
        IN  st.pc # "idle" =>
              IF Created(st)
              THEN /\ st.ev.HostedZoneID = z
                   /\ \A i \in 2..Len(st.calls) : st.calls[i].HostedZoneId = z
                   /\ \A i \in 1..Len(st.pubs) :
                         st.pubs[i].data.doc["hosted_zone_id"] = z
              ELSE st.ev.HostedZoneID = Decoded(st).HostedZoneID

\* witness of C8: a create whose payload named Z1 was given another identity,
\* listed and changed that zone and answered done with it
C8_Witness ==
    LET st == handlers["create"]
    IN  /\ st.pc = "returned"
        /\ Created(st)
        /\ Decoded(st).HostedZoneID = "Z1"
        /\ st.calls[1].resp # "Z1"
        /\ Len(st.calls) = 3 /\ st.calls[3].ok
        /\ st.pubs[1].subject = DoneSubject("create")

(***************************************************************************)
(* C9, C10.                                                                *)
(***************************************************************************)
\* C9: a payload that does not decode is answered with one message, on the
\* error address of the routing key's action, whose body is the payload as
\* received; nothing is validated, called or published on done.
C9_MalformedAnsweredRaw ==
    \A h \in Actions :
        LET st == handlers[h]
        IN  (st.pc # "idle" /\ ~ st.data.wellFormed) =>
              /\ st.pc = "returned"
              /\ st.calls = << >>
              /\ st.pubs = << [subject |-> << "route53", h, "aws", "error" >>,
                               data    |-> st.data] >>
              /\ st.ev.ErrorMessage = ""

\* witness of C9: the payload that is not JSON was handled
C9_Witness ==
    \E h \in Actions :
        /\ handlers[h].pc = "returned"
        /\ handlers[h].data = Garbage
        /\ Len(handlers[h].pubs) = 1

\* C10: a provider call is made only for a command that decoded and passed
\* the four checks; a command that fails a check makes no call and gets one
\* outcome, an error whose error_message is the text of the failed check.
C10_CallsOnlyWhenValid ==
    \A h \in Actions :
        LET st == handlers[h]
        IN  st.pc # "idle" =>
              /\ st.calls # << >> => Dispatched(st)
              /\ (st.data.wellFormed /\ FailingChecks(Decoded(st)) # {}) =>
                    /\ st.pc = "returned"
                    /\ st.calls = << >>
                    /\ Len(st.pubs) = 1
                    /\ st.pubs[1].subject = ErrorSubject(st.subject[2])
                    /\ st.pubs[1].data.doc["error_message"] =
                         CheckError(Min(FailingChecks(Decoded(st))))

\* witness of C10: a command without vpc_id and without name was refused
C10_Witness ==
    \E h \in Actions :
        /\ handlers[h].pc = "returned"
        /\ handlers[h].data.wellFormed
        /\ FailingChecks(Decoded(handlers[h])) = { 1, 4 }
        /\ handlers[h].calls = << >>
        /\ Len(handlers[h].pubs) = 1

(***************************************************************************)
(* C11.                                                                    *)
(***************************************************************************)
Last(s) == s[Len(s)]

\* the handling ended on the failure path: a check or a provider call failed
FailedBy(st) ==
    /\ st.pc = "returned" /\ st.data.wellFormed
    /\ \/ FailingChecks(Decoded(st)) # {}
       \/ st.calls # << >> /\ ~ Last(st.calls).ok

\* the text of the error that ended it
ErrorText(st) ==
    IF FailingChecks(Decoded(st)) # {}
    THEN CheckError(Min(FailingChecks(Decoded(st))))
    ELSE ProviderError

\* the command's field values when the handling ended, from the payload and
\* the calls made: the identity a create was given, no records in a delete
AtEnd(st) ==
    [Decoded(st) EXCEPT
        !.HostedZoneID = IF Created(st) THEN st.calls[1].resp ELSE @,
        !.Records = IF st.subject[2] = "delete" /\ Dispatched(st)
                    THEN NilRecords ELSE @]

\* C11: a handling that fails publishes exactly one message, on the error
\* address and none on done; its error_message is the text of the error (the
\* provider's text as it is), and every other field is the command's value at
\* the moment of failure, hosted_zone_id of a created zone included.
C11_ErrorOutcome ==
    \A h \in Actions :
        LET st   == handlers[h]
            doc  == st.pubs[1].data.doc
            want == Marshal(AtEnd(st)).doc
        IN  FailedBy(st) =>
              /\ Len(st.pubs) = 1
              /\ st.pubs[1].subject = ErrorSubject(h)
              /\ st.pubs[1].data.wellFormed
              /\ DOMAIN doc = DOMAIN want \cup { "error_message" }
              /\ doc["error_message"] = ErrorText(st)
              /\ \A k \in DOMAIN want : doc[k] = want[k]

\* witness of C11: a create was given a zone, failed at a later call and
\* answered with the provider's text and the new zone's identity
C11_Witness ==
    LET st == handlers["create"]
    IN  /\ FailedBy(st)
        /\ Created(st)
        /\ Len(st.calls) = 3
        /\ st.calls[1].resp # Decoded(st).HostedZoneID
        /\ st.pubs[1].data.doc["hosted_zone_id"] = st.calls[1].resp
        /\ st.pubs[1].data.doc["error_message"] = ProviderError

(***************************************************************************)
(* C12.                                                                    *)
(***************************************************************************)
\* C12: a command encoded, decoded by Process and completed at once is
\* answered with one message, on the done address of the routing key's
\* action, whose body is the encoding of the command; nothing goes to the
\* error address.
C12_RoundTrip ==
    (pure.op = "Complete" /\ pure.done) =>
        /\ ~ pure.out.panic
        /\ pure.pubs = << [subject |-> pure.subject \o << "done" >>,
                           data    |-> Marshal(pure.ev)] >>

\* witness of C12: a command with private false, a nil record list and no
\* datacenter_name nor error_message came back as it was sent
C12_Witness ==
    /\ pure.op = "Complete" /\ pure.done
    /\ pure.ev.Private = FALSE /\ pure.ev.Records = NilRecords
    /\ pure.ev.DatacenterName = "" /\ pure.ev.ErrorMessage = ""
    /\ Len(pure.pubs) = 1
    /\ "datacenter_name" \notin DOMAIN pure.pubs[1].data.doc
    /\ pure.pubs[1].data.doc["records"].null

(***************************************************************************)
(* C13.                                                                    *)
(***************************************************************************)
\* every call of the action's sequence was made and succeeded
Succeeded(st) ==
    /\ Dispatched(st)
    /\ Ops(st.calls) = ExpectedCalls(st.subject[2])
    /\ \A i \in 1..Len(st.calls) : st.calls[i].ok

\* C13: an outcome is published on the routing key the command came on with
\* .done appended when the handling succeeded and .error when it failed, so
\* its second segment is the command's action and never another one.
C13_OutcomeAddress ==
    \A h \in Actions :
        LET st == handlers[h]
        IN  \A i \in 1..Len(st.pubs) :
              /\ st.subject = << "route53", h, "aws" >>
              /\ st.pubs[i].subject =
                   st.subject \o << IF Succeeded(st) THEN "done" ELSE "error" >>
              /\ st.pubs[i].subject[2] \notin Actions \ { h }

\* witness of C13: an update answered on its done address and a delete on
\* its error address
C13_Witness ==
    /\ Succeeded(handlers["update"])
    /\ handlers["update"].pubs[1].subject = << "route53", "update", "aws", "done" >>
    /\ handlers["delete"].pc = "returned"
    /\ ~ Succeeded(handlers["delete"])
    /\ handlers["delete"].pubs[1].subject = << "route53", "delete", "aws", "error" >>

(***************************************************************************)
(* C14.                                                                    *)
(***************************************************************************)
\* C14: in a change sequence that buildChanges computed no Upsert follows a
\* Delete, and the records of the Deletes are a subsequence of the listing:
\* they come in the order the listing has them.
C14_DeletesLastInListingOrder ==
    (pure.op = "buildChanges" /\ pure.done /\ ~ pure.out.panic) =>
        LET ch   == pure.out.val
            dels == WithAction(ch, "DELETE")
            recs == [i \in 1..Len(dels) |-> dels[i].ResourceRecordSet]
        IN  /\ \A i, j \in 1..Len(ch) :
                  (i < j /\ ch[i].Action = "DELETE") => ch[j].Action = "DELETE"
            /\ recs = SelectSeq(pure.existing, LAMBDA r : r \in Range(recs))

\* witness of C14: a sequence with an Upsert and the Deletes of two different
\* records
C14_Witness ==
    /\ pure.op = "buildChanges" /\ pure.done /\ ~ pure.out.panic
    /\ pure.out.val # << >> /\ pure.out.val[1].Action = "UPSERT"
    /\ LET dels == WithAction(pure.out.val, "DELETE")
       IN  Len(dels) = 2 /\ dels[1] # dels[2]

(***************************************************************************)
(* C15.                                                                    *)
(***************************************************************************)
\* C15: entryName is defined on every name, the empty one and those ending
\* in several dots included, and gives the name without one trailing dot, or
\* the name itself when it ends otherwise; HasRecord compares the results as
\* they are, letter case included.
C15_EntryNameDefined ==
    /\ (pure.op = "entryName" /\ pure.done) =>
          /\ ~ pure.out.panic
          /\ pure.out.val = Normalized(pure.name)
    /\ (pure.op = "HasRecord" /\ pure.done) =>
          /\ ~ pure.out.panic
          /\ (pure.out.val = "true") <=>
               (Normalized(pure.ev.Records.elems[1].Entry) = Normalized(pure.name))

(***************************************************************************)
(* C16.                                                                    *)
(***************************************************************************)
\* C16: whatever records the payload of a delete command carried, the batch
\* it submits is the Deletes of the listed records that are not SOA or NS
\* records at the command's apex, one each and nothing else (no Upsert), and
\* the zone it then deletes is that of the command's hosted_zone_id.
C16_DeleteDrains ==
    LET st == handlers["delete"]
    IN  /\ Dispatched(st) => st.pc # "panicked"
        /\ \A i \in 1..Len(st.calls) :
              /\ st.calls[i].op = "ChangeResourceRecordSets" =>
                    /\ i > 1 /\ st.calls[i - 1].op = "ListResourceRecordSets"
                    /\ LET want == SelectSeq(st.calls[i - 1].resp,
                                     LAMBDA r : ~ Protected(Decoded(st).Name, r))
                       IN  st.calls[i].Changes =
                             [k \in 1..Len(want) |-> DeleteChange(want[k])]
              /\ st.calls[i].op = "DeleteHostedZone" =>
                    st.calls[i].Id = Decoded(st).HostedZoneID

\* witness of C16: a delete command that came with records submitted two
\* Deletes, kept two listed records and deleted its zone
C16_Witness ==
    LET st == handlers["delete"]
    IN  /\ st.pc = "returned"
        /\ Decoded(st).Records.elems # << >>
        /\ Len(st.calls) = 3
        /\ Len(st.calls[1].resp) = 4
        /\ Len(st.calls[2].Changes) = 2
        /\ st.calls[3].ok /\ st.calls[3].Id = "Z1"

(***************************************************************************)
(* C17.                                                                    *)
(***************************************************************************)
\* C17: the CreateHostedZone request carries the caller reference and the
\* command's name; it carries the VPC (the command's vpc_id and region) and
\* the private-zone flag when the command's private is true, and neither of
\* them when it is false, whatever vpc_id is.
C17_CreateRequest ==
    \A h \in Actions :
        LET st == handlers[h]
            ev == Decoded(st)
        IN  \A i \in 1..Len(st.calls) :
              st.calls[i].op = "CreateHostedZone" =>
                LET req == st.calls[i].req
                IN  /\ req.CallerReference = "uuid.NewV4"
                    /\ req.Name = ev.Name
                    /\ IF ev.Private
                       THEN /\ req.VPC = [isNil |-> FALSE, VPCId |-> ev.VPCID,
                                          VPCRegion |-> ev.DatacenterRegion]
                            /\ req.HostedZoneConfig =
                                 [isNil |-> FALSE, PrivateZone |-> TRUE]
                       ELSE /\ req.VPC.isNil
                            /\ req.HostedZoneConfig.isNil

\* witness of C17: a private zone was asked for, with the VPC of the command
C17_Witness ==
    LET st == handlers["create"]
    IN  /\ st.calls # << >>
        /\ Decoded(st).Private
        /\ st.calls[1].op = "CreateHostedZone"
        /\ st.calls[1].req.VPC.VPCId = "vpc-00000000"
        /\ st.calls[1].req.VPC.VPCRegion = "eu-west-1"

(***************************************************************************)
(* C18.                                                                    *)
(***************************************************************************)
\* the fields no handling assigns
FrameFields ==
    { "UUID", "BatchID", "ProviderType", "Name", "Private", "VPCID",
      "DatacenterName", "DatacenterRegion", "DatacenterToken",
      "DatacenterSecret" }

\* C18: while a command is handled its fields keep the values decoded from
\* the payload, but for hosted_zone_id (assigned only in a create whose
\* CreateHostedZone succeeded), records (emptied only in a delete that passed
\* validation, before its first call) and error_message (set only when the
\* handling failed); an outcome carries the fields as they then are, and the
\* done outcome of an update is the inbound payload.
C18_Frame ==
    \A h \in Actions :
        LET st == handlers[h]
            in == Decoded(st)
        IN  (st.pc # "idle" /\ st.data.wellFormed) =>
              /\ \A f \in FrameFields : st.ev[f] = in[f]
              /\ st.ev.HostedZoneID # in.HostedZoneID => h = "create" /\ Created(st)
              /\ st.ev.Records =
                   IF h = "delete" /\ Dispatched(st) THEN NilRecords ELSE in.Records
              /\ st.ev.ErrorMessage # in.ErrorMessage => FailedBy(st)
              /\ \A i \in 1..Len(st.pubs) : st.pubs[i].data = Marshal(st.ev)
              /\ (h = "update" /\ Succeeded(st)) =>
                    st.pubs = << [subject |-> << "route53", "update", "aws", "done" >>,
                                  data    |-> st.data] >>

\* witness of C18: an update that came with records for a zone was answered
\* done, and a delete that came with a datacenter_name was answered
C18_Witness ==
    /\ Succeeded(handlers["update"])
    /\ Decoded(handlers["update"]).Records.elems # << >>
    /\ Len(handlers["update"].pubs) = 1
    /\ handlers["delete"].pc = "returned"
    /\ Decoded(handlers["delete"]).DatacenterName = "dc"
    /\ handlers["delete"].pubs[1].data.doc["datacenter_name"] = "dc"

(***************************************************************************)
(* C19.                                                                    *)
(***************************************************************************)
\* C19: an update or delete command with an empty hosted_zone_id whose four
\* validated fields are non-empty passes validation: nothing is published
\* before the provider is contacted, and the first call is the listing, made
\* with the empty zone identity.
C19_EmptyZoneIdPasses ==
    \A h \in { "update", "delete" } :
        LET st == handlers[h]
        IN  (/\ st.pc # "idle" /\ st.data.wellFormed
             /\ Decoded(st).HostedZoneID = ""
             /\ FailingChecks(Decoded(st)) = {})
            => IF st.calls = << >>
               THEN st.pc = "list" /\ st.pubs = << >>
               ELSE /\ st.calls[1].op = "ListResourceRecordSets"
                    /\ st.calls[1].HostedZoneId = ""

\* witness of C19: such an update listed the zone of the empty identity, was
\* refused by the provider and answered with the provider's error
C19_Witness ==
    LET st == handlers["update"]
    IN  /\ st.pc = "returned" /\ st.data.wellFormed
        /\ Decoded(st).HostedZoneID = ""
        /\ Len(st.calls) = 1
        /\ st.calls[1].HostedZoneId = "" /\ ~ st.calls[1].ok
        /\ st.pubs[1].data.doc["error_message"] = ProviderError

(***************************************************************************)
(* C20.                                                                    *)
(***************************************************************************)
\* the same command was run twice and nothing else changed the zone from
\* the first listing to the second: the first update went through on the zone
\* as listed, and the second listed the zone as the first had left it
UpdatedTwice ==
    /\ pure.op = "updateRoute53"
    /\ First.accepted /\ First.before = First.existing
    /\ Second.listed /\ Second.existing = First.after

\* C20: when an update went through and the same command is run again with
\* no other change to the zone, the second batch is computed, holds the
\* Upserts of the first and no Delete and is one the provider accepts; once
\* applied to the zone as listed it leaves the content the first had left.
C20_UpdateIdempotent ==
    UpdatedTwice =>
        /\ ~ Second.out.panic
        /\ WithAction(Second.out.val, "UPSERT") = WithAction(First.out.val, "UPSERT")
        /\ WithAction(Second.out.val, "DELETE") = << >>
        /\ BatchAccepted(Second.out.val)
        /\ (Second.accepted /\ Second.before = Second.existing) =>
              Second.after = First.after

\* witness of C20: the first update upserted, deleted and changed the zone,
\* and the second one upserted again and changed nothing
C20_Witness ==
    /\ UpdatedTwice
    /\ WithAction(First.out.val, "UPSERT") # << >>
    /\ WithAction(First.out.val, "DELETE") # << >>
    /\ First.after # First.existing
    /\ Second.accepted /\ Second.before = Second.existing
    /\ Second.out.val # << >>
    /\ Second.after = First.after
    /\ pure.zone.records = First.after

=============================================================================
